---- MODULE Spec2Model ----
(***************************************************************************)
(* Model of real_demo.py: the multimodal spatial-annotation ETL pipeline  *)
(* (download_image, normalize_coords, run_multimodal_pipeline,            *)
(* visualize_task).                                                        *)
(*                                                                         *)
(* Numbers.  normalize_coords returns Python floats rounded to 3 decimal  *)
(* places.  A rounded float is modelled by the integer number of          *)
(* thousandths it denotes (0.25 is 250, 1.0 is 1000).                     *)
(*                                                                         *)
(* Python values of different types are modelled as records with a `kind` *)
(* field, so that None, an image, an exception and a list can be compared.*)
(***************************************************************************)
EXTENDS Integers, Sequences, FiniteSets, TLC

VARIABLES
    REAL_SAMPLES,   \* the embedded sample list iterated by the driver
    pc,             \* position of run_multimodal_pipeline
    item_idx,       \* index (1-based) of the sample the for loop is at
    image,          \* local `image` of the current iteration
    gpt_resp,       \* local `gpt_resp` of run_multimodal_pipeline
    unified_data,   \* the accumulator list
    out_file,       \* contents of unified_multimodal_data.jsonl
    png_files,      \* verification images on disk, by file name
    exc,            \* the exception that left run_multimodal_pipeline, if any
    net_log,        \* history: outcome of requests.get/Image.open per sample
    viz_log,        \* history: the calls made to visualize_task
    n_args,         \* normalize_coords called on its own: the arguments
    n_out           \* normalize_coords called on its own: the result

vars == <<REAL_SAMPLES, pc, item_idx, image, gpt_resp, unified_data, out_file,
          png_files, exc, net_log, viz_log, n_args, n_out>>

pipeline_vars == <<REAL_SAMPLES, pc, item_idx, image, gpt_resp, unified_data,
                   out_file, png_files, exc, net_log, viz_log>>

norm_vars == <<n_args, n_out>>

----------------------------------------------------------------------------
(* Bounds of the model. *)

MaxSamples == 3     \* longest sample list
MaxCoord == 4       \* largest pixel value of the dense small domain
MaxPts == 3         \* longest trajectory handed to normalize_coords alone

----------------------------------------------------------------------------
(* Python values. *)

None == [kind |-> "None"]

Image(size) == [kind |-> "Image", size |-> size]

Unbound == [kind |-> "unbound"]

Value(v) == [kind |-> "value", val |-> v]

Raised(name) == [kind |-> name]

TaskTypes == {"detection", "trajectory", "affordance"}

----------------------------------------------------------------------------
(* round(n/d, 3) for integers n >= 0, d > 0, in thousandths.               *)
(* Python rounds the binary float n/d correctly to 3 decimals; a quotient  *)
(* exactly halfway between two thousandths is rounded to the even one when *)
(* the float is exact (dyadic quotients such as 1/16 or 200/640).  The     *)
(* input domains below contain no halfway quotient that is not dyadic.     *)

round3(n, d) ==
    LET q == (1000 * n) \div d
        r == (1000 * n) % d
    IN  IF 2 * r < d THEN q
        ELSE IF 2 * r > d THEN q + 1
        ELSE IF q % 2 = 0 THEN q ELSE q + 1

\* bbox branch computed without the corner conversion: [x/w, y/h, bw/w, bh/h]
normalize_coords_xywh(coords, w, h, type) ==
    IF type = "bbox" THEN
        IF w = 0 \/ h = 0 THEN Raised("ZeroDivisionError")
        ELSE Value(<<round3(coords[1], w), round3(coords[2], h),
                     round3(coords[3], w), round3(coords[4], h)>>)
    ELSE IF type = "point" THEN
        IF w = 0 \/ h = 0 THEN Raised("ZeroDivisionError")
        ELSE Value(<<round3(coords[1], w), round3(coords[2], h)>>)
    ELSE IF type = "trajectory" THEN
        IF Len(coords) > 0 /\ (w = 0 \/ h = 0) THEN Raised("ZeroDivisionError")
        ELSE Value([k \in 1..Len(coords) |->
                        <<round3(coords[k][1], w), round3(coords[k][2], h)>>])
    ELSE None

\* trajectory branch that loses the last point of the path
normalize_coords_droplast(coords, w, h, type) ==
    IF type = "bbox" THEN
        IF w = 0 \/ h = 0 THEN Raised("ZeroDivisionError")
        ELSE Value(<<round3(coords[1], w), round3(coords[2], h),
                     round3(coords[1] + coords[3], w),
                     round3(coords[2] + coords[4], h)>>)
    ELSE IF type = "point" THEN
        IF w = 0 \/ h = 0 THEN Raised("ZeroDivisionError")
        ELSE Value(<<round3(coords[1], w), round3(coords[2], h)>>)
    ELSE IF type = "trajectory" THEN
        IF Len(coords) > 0 /\ (w = 0 \/ h = 0) THEN Raised("ZeroDivisionError")
        ELSE Value([k \in 1..(Len(coords) - 1) |->
                        <<round3(coords[k][1], w), round3(coords[k][2], h)>>])
    ELSE None

\* every division uses the other dimension: x by the height, y by the width
normalize_coords_swapped(coords, w, h, type) ==
    IF type = "bbox" THEN
        IF w = 0 \/ h = 0 THEN Raised("ZeroDivisionError")
        ELSE Value(<<round3(coords[1], h), round3(coords[2], w),
                     round3(coords[1] + coords[3], h),
                     round3(coords[2] + coords[4], w)>>)
    ELSE IF type = "point" THEN
        IF w = 0 \/ h = 0 THEN Raised("ZeroDivisionError")
        ELSE Value(<<round3(coords[1], h), round3(coords[2], w)>>)
    ELSE IF type = "trajectory" THEN
        IF Len(coords) > 0 /\ (w = 0 \/ h = 0) THEN Raised("ZeroDivisionError")
        ELSE Value([k \in 1..Len(coords) |->
                        <<round3(coords[k][1], h), round3(coords[k][2], w)>>])
    ELSE None

(* normalize_coords(coords, w, h, type).  A division by a zero dimension   *)
(* raises ZeroDivisionError at the first quotient evaluated; a type that   *)
(* matches no branch falls off the end of the function and returns None.   *)
normalize_coords(coords, w, h, type) ==
    IF type = "bbox" THEN
        IF w = 0 \/ h = 0 THEN Raised("ZeroDivisionError")
        ELSE Value(<<round3(coords[1], w), round3(coords[2], h),
                     round3(coords[1] + coords[3], w),
                     round3(coords[2] + coords[4], h)>>)
    ELSE IF type = "point" THEN
        IF w = 0 \/ h = 0 THEN Raised("ZeroDivisionError")
        ELSE Value(<<round3(coords[1], w), round3(coords[2], h)>>)
    ELSE IF type = "trajectory" THEN
        IF Len(coords) > 0 /\ (w = 0 \/ h = 0) THEN Raised("ZeroDivisionError")
        ELSE Value([k \in 1..Len(coords) |->
                        <<round3(coords[k][1], w), round3(coords[k][2], h)>>])
    ELSE None

----------------------------------------------------------------------------
(* The sample list.  Each sample is a dict with the keys of REAL_SAMPLES;  *)
(* the first three templates are the three samples embedded in the source, *)
(* the others add a second detection sample and a sample whose task_type   *)
(* is none of the three the driver dispatches on.  Ids are unique, as in   *)
(* the source: the sample at position k has id "task_k".                   *)

SamplePool == <<
    [url |-> "000000039769.jpg", task_type |-> "detection", label |-> "cat",
     data |-> [bbox |-> <<14, 3, 310, 477>>],
     instruction |-> "Detect the cat."],
    [url |-> "000000000785.jpg", task_type |-> "trajectory",
     label |-> "skier_path",
     data |-> [points |-> <<<<250, 20>>, <<260, 100>>, <<280, 200>>,
                            <<300, 300>>, <<220, 350>>>>],
     instruction |-> "Predict the future trajectory of the skier."],
    [url |-> "000000000724.jpg", task_type |-> "affordance",
     label |-> "stop_sign_center",
     data |-> [point |-> <<343, 202>>],
     instruction |-> "Where is the center of the stop sign for interaction?"],
    [url |-> "000000000139.jpg", task_type |-> "detection", label |-> "dog",
     data |-> [bbox |-> <<100, 100, 200, 200>>],
     instruction |-> "Detect the dog."],
    [url |-> "000000000632.jpg", task_type |-> "segmentation",
     label |-> "sofa",
     data |-> [mask |-> <<0, 0, 100, 100>>],
     instruction |-> "Segment the sofa."] >>

make_sample(k, t) ==
    [id |-> "task_" \o ToString(k), url |-> t.url, task_type |-> t.task_type,
     label |-> t.label, data |-> t.data, instruction |-> t.instruction]

(* What requests.get followed by Image.open can do for one url: raise      *)
(* (network error, timeout, undecodable bytes) or yield an image whose     *)
(* header gives its size.  A size with a zero dimension is an image the    *)
(* decoder accepts and normalize_coords cannot divide by.                  *)
ImageSizes == {<<640, 480>>, <<500, 375>>, <<0, 480>>}

NetOutcomes ==
    {[kind |-> "error", size |-> <<0, 0>>]}
        \cup {[kind |-> "ok", size |-> s] : s \in ImageSizes}

\* a failed fetch answered with a 1x1 placeholder image instead of None
download_image_placeholder(url, net) ==
    IF net.kind = "ok" THEN Image(net.size) ELSE Image(<<1, 1>>)

(* download_image(url): the bare except turns every failure into None.     *)
download_image(url, net) ==
    IF net.kind = "ok" THEN Image(net.size) ELSE None

(* f"{prefix}{value}{suffix}": the text embeds the repr of the list.        *)
fstring(prefix, value, suffix) ==
    [kind |-> "str", prefix |-> prefix, value |-> value, suffix |-> suffix]

(* The body of one loop iteration from `w, h = image.size` up to the entry *)
(* that is appended: the result names the exception raised on the way, if  *)
(* any, the entry built and the value gpt_resp holds afterwards.  gpt is   *)
(* the value of the function local gpt_resp on entry to the iteration: no  *)
(* branch assigns it when task_type is none of the three, and the read at  *)
(* the conversations assignment then sees the previous iteration's value,  *)
(* or raises UnboundLocalError when it was never assigned.                 *)
unify(item, img, gpt) ==
    LET w == img.size[1]
        h == img.size[2]
        type == IF item.task_type = "detection" THEN "bbox"
                ELSE IF item.task_type = "trajectory" THEN "trajectory"
                ELSE "point"
        raw == IF item.task_type = "detection" THEN item.data.bbox
               ELSE IF item.task_type = "trajectory" THEN item.data.points
               ELSE item.data.point
        norm == normalize_coords(raw, w, h, type)
        resp == IF item.task_type = "detection"
                    THEN fstring("Found at <box>", norm.val, "</box>.")
                ELSE IF item.task_type = "trajectory"
                    THEN fstring("Trajectory path: <traj>", norm.val, "</traj>.")
                ELSE fstring("Interact at point: <point>", norm.val, "</point>.")
        entry(anns, g) ==
            [id |-> item.id,
             source |-> "coco_simulated",
             task_type |-> item.task_type,
             media |-> [image_size |-> <<w, h>>, url |-> item.url],
             spatial_annotations |-> anns,
             conversations |-> <<[from |-> "human", value |-> item.instruction],
                                 [from |-> "gpt", value |-> g]>>]
    IN  IF item.task_type \in TaskTypes THEN
            IF norm.kind # "value"
                THEN [exc |-> norm.kind, entry |-> None, gpt_resp |-> gpt]
                ELSE [exc |-> "none",
                      entry |-> entry(<<[type |-> type, value |-> norm.val,
                                         label |-> item.label]>>, resp),
                      gpt_resp |-> resp]
        ELSE IF gpt.kind = "unbound"
            THEN [exc |-> "UnboundLocalError", entry |-> None, gpt_resp |-> gpt]
            ELSE [exc |-> "none", entry |-> entry(<<>>, gpt), gpt_resp |-> gpt]

\* the entry is put in front of the accumulated entries
accumulate_front(data, entry) == <<entry>> \o data

(* unified_data.append(entry) *)
accumulate(data, entry) == Append(data, entry)

\* the file name is derived from the sample id instead of the task type
save_name_by_id(item) == "verify_" \o item.id \o ".png"

(* f"verify_{item['task_type']}.png" *)
save_name(item) == "verify_" \o item.task_type \o ".png"

(* visualize_task(image, item, save_name): what savefig writes.  The       *)
(* overlay is drawn from the raw pixel payload of the item; a task_type    *)
(* that matches no branch leaves the bare image, with no title.            *)
visualize_task(img, item, name) ==
    LET task == item.task_type
    IN  [image |-> img.size,
         overlay |->
            IF task = "detection"
                THEN [shape |-> "Rectangle", at |-> item.data.bbox]
            ELSE IF task = "trajectory"
                THEN [shape |-> "plot", at |-> item.data.points]
            ELSE IF task = "affordance"
                THEN [shape |-> "Circle", at |-> item.data.point]
            ELSE [shape |-> "none", at |-> <<>>],
         title |->
            IF task = "detection"
                THEN "Task: Detection (BBox) - " \o item.label
            ELSE IF task = "trajectory"
                THEN "Task: Trajectory (Path) - " \o item.label
            ELSE IF task = "affordance"
                THEN "Task: Affordance (Interaction Point) - " \o item.label
            ELSE ""]

(* json.dumps(d) + "\n" for each accumulated entry, in list order.          *)
write_jsonl(data) == [k \in 1..Len(data) |-> [json |-> data[k]]]

----------------------------------------------------------------------------
(* run_multimodal_pipeline as a state machine. *)

NoArgs == [type |-> "none"]

Pending == [kind |-> "pending"]

Absent == [kind |-> "absent"]

Init ==
    /\ \E n \in 0..MaxSamples :
         \E f \in [1..n -> 1..Len(SamplePool)] :
            REAL_SAMPLES = [k \in 1..n |-> make_sample(k, SamplePool[f[k]])]
    /\ pc = "loop"
    /\ item_idx = 1
    /\ image = None
    /\ gpt_resp = Unbound
    /\ unified_data = <<>>
    /\ out_file = Absent
    /\ png_files = <<>>
    /\ exc = "none"
    /\ net_log = <<>>
    /\ viz_log = <<>>
    /\ n_args = NoArgs
    /\ n_out = Pending

(* for item in REAL_SAMPLES: image = download_image(...); if not image: continue *)
Fetch ==
    /\ pc = "loop"
    /\ item_idx <= Len(REAL_SAMPLES)
    /\ \E net \in NetOutcomes :
         LET img == download_image(REAL_SAMPLES[item_idx].url, net)
         IN  /\ net_log' = Append(net_log, net)
             /\ image' = img
             /\ IF img.kind = "None"
                    THEN /\ item_idx' = item_idx + 1
                         /\ pc' = "loop"
                    ELSE /\ item_idx' = item_idx
                         /\ pc' = "unify"
    /\ UNCHANGED <<REAL_SAMPLES, gpt_resp, unified_data, out_file, png_files,
                   exc, viz_log, norm_vars>>

(* w, h = image.size ... unified_data.append(entry); an exception raised   *)
(* on the way is caught nowhere and leaves run_multimodal_pipeline.        *)
Unify ==
    /\ pc = "unify"
    /\ LET u == unify(REAL_SAMPLES[item_idx], image, gpt_resp)
       IN  /\ gpt_resp' = u.gpt_resp
           /\ IF u.exc = "none"
                  THEN /\ unified_data' = accumulate(unified_data, u.entry)
                       /\ pc' = "visualize"
                       /\ exc' = exc
                  ELSE /\ unified_data' = unified_data
                       /\ pc' = "raised"
                       /\ exc' = u.exc
    /\ UNCHANGED <<REAL_SAMPLES, item_idx, image, out_file, png_files,
                   net_log, viz_log, norm_vars>>

(* visualize_task(image, item, f"verify_{task_type}.png"): savefig either  *)
(* writes (overwrites) the file or raises, and the exception leaves the    *)
(* run like any other.                                                     *)
Visualize ==
    /\ pc = "visualize"
    /\ LET item == REAL_SAMPLES[item_idx]
           name == save_name(item)
       IN  /\ viz_log' = Append(viz_log, [id |-> item.id, data |-> item.data,
                                          save_name |-> name])
           /\ \E saved \in BOOLEAN :
                IF saved
                    THEN /\ png_files' =
                              [f \in (DOMAIN png_files) \cup {name} |->
                                  IF f = name
                                      THEN [src |-> item.id,
                                            png |-> visualize_task(image, item, name)]
                                      ELSE png_files[f]]
                         /\ item_idx' = item_idx + 1
                         /\ pc' = "loop"
                         /\ exc' = exc
                    ELSE /\ png_files' = png_files
                         /\ item_idx' = item_idx
                         /\ pc' = "raised"
                         /\ exc' = "OSError"
    /\ UNCHANGED <<REAL_SAMPLES, image, gpt_resp, unified_data, out_file,
                   net_log, norm_vars>>

(* with open("unified_multimodal_data.jsonl", "w") as f: ... *)
Save ==
    /\ pc = "loop"
    /\ item_idx > Len(REAL_SAMPLES)
    /\ out_file' = Value(write_jsonl(unified_data))
    /\ pc' = "done"
    /\ UNCHANGED <<REAL_SAMPLES, item_idx, image, gpt_resp, unified_data,
                   png_files, exc, net_log, viz_log, norm_vars>>

Next == Fetch \/ Unify \/ Visualize \/ Save

Spec == Init /\ [][Next]_vars

----------------------------------------------------------------------------
(* normalize_coords called on its own, as a unit test would: the arguments *)
(* are drawn from a dense domain of small pixel values and dimensions (16  *)
(* is there for the quotients that fall halfway between two thousandths)   *)
(* and from a domain of round pixel values over real image dimensions.     *)

SmallVals == 0..MaxCoord

SmallDims == (0..MaxCoord) \cup {16}

RealVals == {0, 100, 200, 300, 400}

RealDims == {400, 480, 640}

TrajPoints == {<<0, 0>>, <<1, 2>>, <<3, 1>>, <<4, 4>>}

SeqsUpTo(S, n) == UNION {[1..m -> S] : m \in 0..n}

BBoxInputs ==
    {[coords |-> <<x, y, bw, bh>>, w |-> w, h |-> h, type |-> "bbox"] :
        x \in SmallVals, y \in SmallVals, bw \in SmallVals, bh \in SmallVals,
        w \in SmallDims, h \in SmallDims}
    \cup
    {[coords |-> <<x, y, bw, bh>>, w |-> w, h |-> h, type |-> "bbox"] :
        x \in RealVals, y \in RealVals, bw \in RealVals, bh \in RealVals,
        w \in RealDims, h \in RealDims}

PointInputs ==
    {[coords |-> <<x, y>>, w |-> w, h |-> h, type |-> "point"] :
        x \in SmallVals, y \in SmallVals, w \in SmallDims, h \in SmallDims}
    \cup
    {[coords |-> <<x, y>>, w |-> w, h |-> h, type |-> "point"] :
        x \in RealVals, y \in RealVals, w \in RealDims, h \in RealDims}
    \cup
    {[coords |-> <<343, 202>>, w |-> 640, h |-> 480, type |-> "point"]}

TrajectoryInputs ==
    {[coords |-> c, w |-> w, h |-> h, type |-> "trajectory"] :
        c \in SeqsUpTo(TrajPoints, MaxPts), w \in SmallDims, h \in SmallDims}
    \cup
    {[coords |-> <<<<250, 20>>, <<260, 100>>, <<280, 200>>, <<300, 300>>,
                   <<220, 350>>>>,
      w |-> 640, h |-> 480, type |-> "trajectory"]}

OtherInputs ==
    {[coords |-> <<x, y>>, w |-> w, h |-> h, type |-> "polygon"] :
        x \in SmallVals, y \in SmallVals, w \in SmallDims, h \in SmallDims}

InitNorm ==
    /\ \/ n_args \in BBoxInputs
       \/ n_args \in PointInputs
       \/ n_args \in TrajectoryInputs
       \/ n_args \in OtherInputs
    /\ n_out = Pending
    /\ REAL_SAMPLES = <<>>
    /\ pc = "idle"
    /\ item_idx = 1
    /\ image = None
    /\ gpt_resp = Unbound
    /\ unified_data = <<>>
    /\ out_file = Absent
    /\ png_files = <<>>
    /\ exc = "none"
    /\ net_log = <<>>
    /\ viz_log = <<>>

Normalize ==
    /\ n_args.type # "none"
    /\ n_out.kind = "pending"
    /\ n_out' = normalize_coords(n_args.coords, n_args.w, n_args.h, n_args.type)
    /\ UNCHANGED <<n_args, pipeline_vars>>

NextNorm == Normalize

SpecNorm == InitNorm /\ [][NextNorm]_vars

(* The interpreter keeps executing the function until it returns or an     *)
(* exception leaves it.                                                    *)
FairSpec == Spec /\ WF_vars(Next)

----------------------------------------------------------------------------
(* Vocabulary of the properties. *)

Abs(n) == IF n < 0 THEN -n ELSE n

\* v thousandths is n/d rounded to 3 decimals: within half a thousandth of it
Nearest(v, n, d) == 2 * Abs(1000 * n - v * d) <= d

Computed == n_out.kind # "pending"

PositiveDims == n_args.w > 0 /\ n_args.h > 0

UnitScalar(v) == 0 <= v /\ v <= 1000

\* every scalar of the result computed for n_args lies in [0,1]
OutputInUnitRange ==
    /\ n_out.kind = "value"
    /\ IF n_args.type = "trajectory"
           THEN \A k \in 1..Len(n_out.val) :
                    UnitScalar(n_out.val[k][1]) /\ UnitScalar(n_out.val[k][2])
           ELSE \A k \in 1..Len(n_out.val) : UnitScalar(n_out.val[k])

\* every raw coordinate is between 0 and the dimension it is divided by
RawWithinDims ==
    LET c == n_args.coords
        w == n_args.w
        h == n_args.h
    IN  IF n_args.type = "bbox"
            THEN /\ 0 <= c[1] /\ c[1] <= w /\ 0 <= c[3] /\ c[3] <= w
                 /\ 0 <= c[2] /\ c[2] <= h /\ 0 <= c[4] /\ c[4] <= h
        ELSE IF n_args.type = "point"
            THEN 0 <= c[1] /\ c[1] <= w /\ 0 <= c[2] /\ c[2] <= h
        ELSE \A k \in 1..Len(c) :
                0 <= c[k][1] /\ c[k][1] <= w /\ 0 <= c[k][2] /\ c[k][2] <= h

\* the far corner of a box lies inside the image
FarCornerWithinDims ==
    n_args.type = "bbox" =>
        /\ n_args.coords[1] + n_args.coords[3] <= n_args.w
        /\ n_args.coords[2] + n_args.coords[4] <= n_args.h

Kinds == {"bbox", "point", "trajectory"}

Fetched(k) == k \in 1..Len(net_log)

FetchFailed(k) == Fetched(k) /\ net_log[k].kind = "error"

HasId(entries, id) == \E c \in 1..Len(entries) : entries[c].id = id

FileWritten == out_file.kind = "value"

\* position in REAL_SAMPLES of the sample with the given id
PosOf(id) == CHOOSE k \in 1..Len(REAL_SAMPLES) : REAL_SAMPLES[k].id = id

RECURSIVE FetchedOkIds(_)
\* ids of the samples 1..k whose fetch returned an image, in input order
FetchedOkIds(k) ==
    IF k = 0 THEN <<>>
    ELSE IF net_log[k].kind = "ok"
        THEN Append(FetchedOkIds(k - 1), REAL_SAMPLES[k].id)
        ELSE FetchedOkIds(k - 1)

KindOfTask(t) ==
    IF t = "detection" THEN "bbox"
    ELSE IF t = "trajectory" THEN "trajectory"
    ELSE IF t = "affordance" THEN "point"
    ELSE "none"

OpenMarker(t) ==
    IF t = "detection" THEN "Found at <box>"
    ELSE IF t = "trajectory" THEN "Trajectory path: <traj>"
    ELSE IF t = "affordance" THEN "Interact at point: <point>"
    ELSE "none"

CloseMarker(t) ==
    IF t = "detection" THEN "</box>."
    ELSE IF t = "trajectory" THEN "</traj>."
    ELSE IF t = "affordance" THEN "</point>."
    ELSE "none"

RawPayload(item) ==
    IF item.task_type = "detection" THEN item.data.bbox
    ELSE IF item.task_type = "trajectory" THEN item.data.points
    ELSE item.data.point

----------------------------------------------------------------------------
(* C1: a sample whose fetch fails yields no record with its id, in the     *)
(* accumulator or in the output file, and no call of visualize_task; the   *)
(* loop goes on to the next sample, the failure never being what ends the  *)
(* run; and the run then comes to its end, where a run that no exception   *)
(* left has written the output file.                                       *)
C1_SkippedSafely ==
    \A k \in 1..Len(net_log) :
        FetchFailed(k) =>
            /\ ~HasId(unified_data, REAL_SAMPLES[k].id)
            /\ \A c \in 1..Len(viz_log) : viz_log[c].id # REAL_SAMPLES[k].id
            /\ item_idx > k
            /\ (FileWritten =>
                   \A c \in 1..Len(out_file.val) :
                       out_file.val[c].json.id # REAL_SAMPLES[k].id)
            /\ (pc = "done" => FileWritten)

C1_FetchFailureSkips ==
    /\ []C1_SkippedSafely
    /\ (\E k \in 1..MaxSamples : FetchFailed(k))
           ~> (pc = "raised" \/ (pc = "done" /\ FileWritten))

\* a run with a failed fetch and an emitted record has written its file
C1_Witness ==
    /\ pc = "done"
    /\ FileWritten
    /\ Len(out_file.val) >= 1
    /\ \E k \in 1..Len(net_log) : k < Len(net_log) /\ FetchFailed(k)

(* C2: the ids of the lines of the output file are the ids of the input    *)
(* samples restricted to those whose fetch succeeded (the processed        *)
(* samples of a run that reached its end), in input order, none twice.     *)
C2_OutputOrder ==
    FileWritten =>
        /\ Len(net_log) = Len(REAL_SAMPLES)
        /\ Len(out_file.val) = Len(FetchedOkIds(Len(REAL_SAMPLES)))
        /\ \A c \in 1..Len(out_file.val) :
               out_file.val[c].json.id = FetchedOkIds(Len(REAL_SAMPLES))[c]
        /\ \A c, d \in 1..Len(out_file.val) :
               c # d => out_file.val[c].json.id # out_file.val[d].json.id

\* a file of two records or more, written by a run that skipped a sample
\* between two processed ones
C2_Witness ==
    /\ FileWritten
    /\ Len(out_file.val) >= 2
    /\ \E k \in 2..(Len(net_log) - 1) :
          /\ FetchFailed(k)
          /\ net_log[k - 1].kind = "ok"
          /\ net_log[k + 1].kind = "ok"

(* C3: no failure of a sample ends the run: no exception ever leaves       *)
(* run_multimodal_pipeline.                                                *)
C3_RunNeverAborts == pc # "raised"

(* C4: a sample whose task_type is none of detection, trajectory,          *)
(* affordance is skipped: no record carries its id and it does not end     *)
(* the run.                                                                *)
C4_UnknownTaskSkipped ==
    \A k \in 1..Len(net_log) :
        REAL_SAMPLES[k].task_type \notin TaskTypes =>
            /\ ~HasId(unified_data, REAL_SAMPLES[k].id)
            /\ ~(pc = "raised" /\ item_idx = k)

(* C5: every accumulated record holds exactly one spatial annotation, of   *)
(* the kind paired with its task_type and with the label of its sample.    *)
C5_OneAnnotationPerRecord ==
    \A c \in 1..Len(unified_data) :
        LET r == unified_data[c]
        IN  /\ Len(r.spatial_annotations) = 1
            /\ r.spatial_annotations[1].type = KindOfTask(r.task_type)
            /\ r.spatial_annotations[1].label = REAL_SAMPLES[PosOf(r.id)].label

(* C6: in every accumulated record, conversations is the human turn with   *)
(* the sample's instruction followed by the gpt turn whose text embeds the *)
(* value of the record's own annotation inside the marker of the record's  *)
(* task type.                                                              *)
C6_ResponseOfOwnSample ==
    \A c \in 1..Len(unified_data) :
        LET r == unified_data[c]
            g == r.conversations[2].value
        IN  /\ Len(r.conversations) = 2
            /\ r.conversations[1].from = "human"
            /\ r.conversations[1].value = REAL_SAMPLES[PosOf(r.id)].instruction
            /\ r.conversations[2].from = "gpt"
            /\ g.prefix = OpenMarker(r.task_type)
            /\ g.suffix = CloseMarker(r.task_type)
            /\ Len(r.spatial_annotations) = 1
            /\ g.value = r.spatial_annotations[1].value

(* C7 as stated: for positive dimensions and raw coordinates that all lie  *)
(* between 0 and the dimension they are divided by, every scalar of the    *)
(* result lies in [0,1].                                                   *)
C7_UnitRangeAsStated ==
    (Computed /\ n_args.type \in Kinds /\ PositiveDims /\ RawWithinDims)
        => OutputInUnitRange

(* C7 amended: the same, for boxes whose far corner (x+w, y+h) also lies   *)
(* inside the image.                                                       *)
C7_UnitRange ==
    (Computed /\ n_args.type \in Kinds /\ PositiveDims /\ RawWithinDims
        /\ FarCornerWithinDims)
        => OutputInUnitRange

\* a box that touches the right and bottom edges of a non-square image
C7_Witness ==
    /\ Computed
    /\ n_args.type = "bbox"
    /\ PositiveDims
    /\ n_args.w # n_args.h
    /\ n_args.coords[1] > 0
    /\ n_args.coords[3] > 0
    /\ RawWithinDims
    /\ FarCornerWithinDims
    /\ n_out.val[3] = 1000
    /\ n_out.val[4] = 1000

(* C8: for kind bbox and positive dimensions the result is the two-corner  *)
(* box [x/width, y/height, (x+w)/width, (y+h)/height], each component      *)
(* rounded to 3 decimals; [100,100,200,200] in a 400x400 image gives       *)
(* [0.25, 0.25, 0.75, 0.75].                                               *)
C8_BBoxTwoCorner ==
    (Computed /\ n_args.type = "bbox" /\ PositiveDims) =>
        LET c == n_args.coords
            w == n_args.w
            h == n_args.h
        IN  /\ n_out.kind = "value"
            /\ Len(n_out.val) = 4
            /\ Nearest(n_out.val[1], c[1], w)
            /\ Nearest(n_out.val[2], c[2], h)
            /\ Nearest(n_out.val[3], c[1] + c[3], w)
            /\ Nearest(n_out.val[4], c[2] + c[4], h)
            /\ (c = <<100, 100, 200, 200>> /\ w = 400 /\ h = 400
                    => n_out.val = <<250, 250, 750, 750>>)

C8_Witness ==
    /\ Computed
    /\ n_args.type = "bbox"
    /\ n_args.coords = <<100, 100, 200, 200>>
    /\ n_args.w = 400
    /\ n_args.h = 400
    /\ n_out.kind = "value"

(* C9: for kind trajectory, N >= 1 points and positive dimensions, the     *)
(* result has exactly N pairs and its i-th pair is the point normalization *)
(* [x_i/width, y_i/height], rounded to 3 decimals, of the i-th input       *)
(* point.                                                                  *)
C9_TrajectoryPointwise ==
    (Computed /\ n_args.type = "trajectory" /\ Len(n_args.coords) >= 1
        /\ PositiveDims) =>
        /\ n_out.kind = "value"
        /\ Len(n_out.val) = Len(n_args.coords)
        /\ \A k \in 1..Len(n_args.coords) :
              /\ Len(n_out.val[k]) = 2
              /\ Nearest(n_out.val[k][1], n_args.coords[k][1], n_args.w)
              /\ Nearest(n_out.val[k][2], n_args.coords[k][2], n_args.h)
              /\ n_out.val[k]
                    = normalize_coords(n_args.coords[k], n_args.w, n_args.h,
                                       "point").val

\* a path of three points whose normalized pairs are pairwise different
C9_Witness ==
    /\ Computed
    /\ n_args.type = "trajectory"
    /\ PositiveDims
    /\ Len(n_args.coords) >= 3
    /\ n_out.kind = "value"
    /\ Len(n_out.val) >= 3
    /\ n_out.val[1] # n_out.val[2]
    /\ n_out.val[2] # n_out.val[3]
    /\ n_out.val[1] # n_out.val[3]

(* C10: visualize_task is called once for each sample that produced a      *)
(* record, after the record was appended and in input order, with the raw  *)
(* pixel payload of the sample and a file name that depends on the         *)
(* task_type only; at the end of the run there is one verification image   *)
(* per distinct task_type among the records, rendered from the last        *)
(* sample of that task_type.                                               *)
C10_OneImagePerTaskType ==
    /\ Len(viz_log) = IF pc = "visualize" THEN Len(unified_data) - 1
                                          ELSE Len(unified_data)
    /\ \A c \in 1..Len(viz_log) :
          /\ viz_log[c].id = unified_data[c].id
          /\ viz_log[c].data = REAL_SAMPLES[PosOf(viz_log[c].id)].data
    /\ \A c, d \in 1..Len(viz_log) :
          (viz_log[c].save_name = viz_log[d].save_name)
              <=> (unified_data[c].task_type = unified_data[d].task_type)
    /\ pc = "done" =>
          /\ Cardinality(DOMAIN png_files)
                = Cardinality({unified_data[c].task_type :
                                   c \in 1..Len(unified_data)})
          /\ \A c \in 1..Len(unified_data) :
                \E f \in DOMAIN png_files :
                    LET last == CHOOSE d \in c..Len(unified_data) :
                                  /\ unified_data[d].task_type
                                        = unified_data[c].task_type
                                  /\ \A e \in (d + 1)..Len(unified_data) :
                                        unified_data[e].task_type
                                            # unified_data[c].task_type
                        item == REAL_SAMPLES[PosOf(unified_data[last].id)]
                    IN  /\ png_files[f].src = unified_data[last].id
                        /\ png_files[f].png.title # ""
                              => png_files[f].png.overlay.at = RawPayload(item)

\* a finished run with two records of one task type and a second image
C10_Witness ==
    /\ pc = "done"
    /\ Cardinality(DOMAIN png_files) >= 2
    /\ \E c, d \in 1..Len(unified_data) :
          /\ c < d
          /\ unified_data[c].task_type = unified_data[d].task_type
          /\ png_files[viz_log[d].save_name].src = unified_data[d].id

====
